---- MODULE Spec2Model ----
(***************************************************************************)
(* PixelGen: the pixel-grid pipeline of the application.                   *)
(*   App            (handleGenerate, handleSizeChange, render)             *)
(*   CanvasPreview  (tool state, applyTool, mouse handlers, grid effect)   *)
(*   Sidebar        (handleSubmit, size buttons)                           *)
(*   pixelProcessor (processImageToGrid, rgbToHex, generateCodeSnippet)    *)
(* A handler, the render it causes and the effects of that render are one  *)
(* step.  Arrays are JavaScript arrays: an index at or past the length     *)
(* reads undefined, a write past the length grows the array and leaves     *)
(* holes, a spread turns holes into undefined elements.                    *)
(***************************************************************************)
EXTENDS Integers, Sequences, FiniteSets, TLC

VARIABLES
    hasApiKey,     \* App: the landing page is shown while FALSE
    selectedSize,  \* App: the size handed to Sidebar and CanvasPreview
    gridData,      \* App: Null or the grid (a sequence of cells)
    isGenerating,  \* App
    error,         \* App: "none", "auth" or "other"
    genPc,         \* handleGenerate: "idle", "image" (awaiting the provider), "grid" (awaiting processImageToGrid)
    reqSize,       \* handleGenerate: its size argument
    activeTool,    \* CanvasPreview
    brushSize,     \* CanvasPreview
    drawColor,     \* CanvasPreview
    isDragging,    \* CanvasPreview
    showCode,      \* CanvasPreview: the JSON panel
    nEdits,        \* grid updates issued so far in the session
    nGens,         \* generation requests issued so far in the session
    imageData,     \* processImageToGrid: the pixels getImageData returned, <<>> outside img.onload
    pendingGrid    \* App: the grid given to setGridData and not rendered yet, or NoUpdate

vars == <<hasApiKey, selectedSize, gridData, isGenerating, error, genPc, reqSize,
          activeTool, brushSize, drawColor, isDragging, showCode, nEdits, nGens,
          imageData, pendingGrid>>

---------------------------------------------------------------------------
(* Bounds of the model *)

\* PixelSize.XS and PixelSize.S, scaled down from 32 and 64
XS == 2
S == 3
\* the brush slider, scaled down from 1..5 with the grid
MaxBrush == 3
\* pixels of a bitmap that differ from its base pixel
MaxSpots == 1
\* grid updates per session; the editor is used until the last of them
MaxEdits == 1
\* generation requests per session
MaxGenerations == 2

---------------------------------------------------------------------------
(* Values *)

\* no grid: a value no grid equals (every grid has at least XS * XS cells)
Null == << "<null>" >>
\* no state update of gridData is waiting for its render
NoUpdate == << "<no update>" >>
Transparent == "transparent"
\* what reading a missing element gives
Undefined == "<undefined>"
\* an index of an array that was never written
Hole == "<hole>"
\* undefined among numbers, and what JSON.stringify makes of it in an array
UndefinedNum == 0 - 2
JsonNull == "<json-null>"
JsonNullNum == 0 - 3

PixelSize == {XS, S}

\* mouse positions reach one cell past every edge of the largest canvas
Coords == (0 - 1) .. S

BrushSizes == 1 .. MaxBrush

\* the values the colour input delivers
PickerColors == {"#00ff00"}

\* RGBA pixels of the resampled bitmap
Pixels == { <<0, 0, 0, 255>>, <<35, 35, 35, 255>>, <<255, 128, 0, 255>>, <<255, 128, 0, 49>> }

Max(a, b) == IF a >= b THEN a ELSE b

\* grid[i] for a 0-based i
Read(g, i) ==
    IF i < 0 \/ i >= Len(g) THEN Undefined
    ELSE IF g[i + 1] = Hole THEN Undefined ELSE g[i + 1]

\* [...grid]
Spread(g) == [i \in 1 .. Len(g) |-> Read(g, i - 1)]

\* a cell that is a colour string
IsColor(c) == c \notin {Transparent, Undefined, Hole}

---------------------------------------------------------------------------
(* utils/pixelProcessor: rgbToHex, processImageToGrid *)

HexDigits == <<"0", "1", "2", "3", "4", "5", "6", "7",
               "8", "9", "a", "b", "c", "d", "e", "f">>

\* the two hexadecimal digits of a channel 0..255
Hex2(n) == HexDigits[(n \div 16) + 1] \o HexDigits[(n % 16) + 1]

\* "#" + ((1 << 24) + (r << 16) + (g << 8) + b).toString(16).slice(1)
rgbToHex(r, g, b) == "#" \o Hex2(r) \o Hex2(g) \o Hex2(b)

threshold == 60
alphaCutoff == 50

\* a pixel at the threshold counts as background too
classify_inclusive(p, bg) ==
    LET d2 == (p[1] - bg[1]) * (p[1] - bg[1]) + (p[2] - bg[2]) * (p[2] - bg[2])
              + (p[3] - bg[3]) * (p[3] - bg[3])
        isBg == d2 <= threshold * threshold
    IN  IF p[4] < alphaCutoff \/ isBg THEN Transparent ELSE rgbToHex(p[1], p[2], p[3])

\* one pass of the loop over the image data; bg is the pixel at index 0
classify(p, bg) ==
    LET d2 == (p[1] - bg[1]) * (p[1] - bg[1]) + (p[2] - bg[2]) * (p[2] - bg[2])
              + (p[3] - bg[3]) * (p[3] - bg[3])
        \* Math.sqrt(d2) < threshold
        isBg == d2 < threshold * threshold
    IN  IF p[4] < alphaCutoff \/ isBg THEN Transparent ELSE rgbToHex(p[1], p[2], p[3])

\* the reference is the black the image was asked to have as its background
processImageToGrid_blackReference(bitmap, size) ==
    [i \in 1 .. size * size |-> classify(bitmap[i], <<0, 0, 0, 255>>)]

\* img.onload: bitmap is the size x size image data, one RGBA tuple per pixel
processImageToGrid(bitmap, size) ==
    [i \in 1 .. size * size |-> classify(bitmap[i], bitmap[1])]

RECURSIVE SpotSets(_, _)
SpotSets(n, k) ==
    IF k = 0 THEN {{}}
    ELSE LET P == SpotSets(n, k - 1) IN P \cup {s \cup {a} : s \in P, a \in 1 .. n}

\* what drawImage and getImageData may deliver: a background pixel in the
\* top-left corner, a fill pixel elsewhere, and a few pixels that differ
Bitmaps(size) ==
    UNION { UNION { { [i \in 1 .. size * size |->
                        IF i = 1 THEN bf[1] ELSE IF i \in s THEN f[i] ELSE bf[2]]
                      : f \in [s -> Pixels] }
                    : s \in SpotSets(size * size, MaxSpots) }
            : bf \in Pixels \X Pixels }

\* the grids processImageToGrid may resolve with, per size
hexGrids == [size \in PixelSize |-> { processImageToGrid(bitmap, size) : bitmap \in Bitmaps(size) }]

---------------------------------------------------------------------------
(* utils/pixelProcessor: generateCodeSnippet *)

Range(s) == {s[i] : i \in 1 .. Len(s)}

\* Array.from(new Set(grid.filter(c => c !== 'transparent'))); filter skips holes
RECURSIVE paletteFrom(_, _, _)
paletteFrom(grid, i, acc) ==
    IF i > Len(grid) THEN acc
    ELSE IF grid[i] = Hole \/ grid[i] = Transparent \/ grid[i] \in Range(acc)
         THEN paletteFrom(grid, i + 1, acc)
         ELSE paletteFrom(grid, i + 1, Append(acc, grid[i]))

paletteOf(grid) == paletteFrom(grid, 1, <<>>)

\* palette.indexOf(color), 0-based, -1 when absent
RECURSIVE indexFrom(_, _, _)
indexFrom(palette, color, i) ==
    IF i > Len(palette) THEN 0 - 1
    ELSE IF palette[i] = color THEN i - 1 ELSE indexFrom(palette, color, i + 1)

indexOf(palette, color) == indexFrom(palette, color, 1)

\* grid.map(...): map keeps holes, and a hole reads undefined
rawIndicesOf(grid, palette) ==
    [i \in 1 .. Len(grid) |->
        IF grid[i] = Hole THEN UndefinedNum
        ELSE IF grid[i] = Transparent THEN 0 - 1
        ELSE indexOf(palette, grid[i])]

\* the for loop of step 3, from index i (1-based), and the push of the last run
RECURSIVE rleLoop(_, _, _, _, _)
rleLoop(rawIndices, i, currentVal, currentCount, rleData) ==
    IF i > Len(rawIndices) THEN rleData \o <<currentVal, currentCount>>
    ELSE IF rawIndices[i] = currentVal
         THEN rleLoop(rawIndices, i + 1, currentVal, currentCount + 1, rleData)
         ELSE rleLoop(rawIndices, i + 1, rawIndices[i], 1,
                      rleData \o <<currentVal, currentCount>>)

\* the first run counted from 0
rleOf_countFromZero(rawIndices) ==
    IF Len(rawIndices) > 0 THEN rleLoop(rawIndices, 2, rawIndices[1], 0, <<>>) ELSE <<>>

rleOf(rawIndices) ==
    IF Len(rawIndices) > 0 THEN rleLoop(rawIndices, 2, rawIndices[1], 1, <<>>) ELSE <<>>

\* JSON.stringify(output, null, 0), as the JSON value it writes: strings and
\* numbers as they are, undefined in an array as null
stringify(output) ==
    [format  |-> output.format,
     width   |-> output.width,
     height  |-> output.height,
     palette |-> [i \in 1 .. Len(output.palette) |->
                    IF output.palette[i] = Undefined THEN JsonNull ELSE output.palette[i]],
     data    |-> [i \in 1 .. Len(output.data) |->
                    IF output.data[i] = UndefinedNum THEN JsonNullNum ELSE output.data[i]]]

generateCodeSnippet(grid, size) ==
    LET palette == paletteOf(grid)
        rawIndices == rawIndicesOf(grid, palette)
        rleData == rleOf(rawIndices)
    IN  stringify([format  |-> "RLE (Value, Count)",
                   width   |-> size,
                   height  |-> size,
                   palette |-> palette,
                   data    |-> rleData])

\* decode of section 4.3: each (value, count) pair repeats value count times,
\* -1 is Transparent, any other value goes through the palette
decodeValue(palette, v) ==
    IF v = 0 - 1 THEN Transparent
    ELSE IF v >= 0 /\ v < Len(palette) THEN palette[v + 1] ELSE Undefined

RECURSIVE decodeFrom(_, _, _)
decodeFrom(record, k, acc) ==
    IF 2 * k > Len(record.data) THEN acc
    ELSE decodeFrom(record, k + 1,
             acc \o [j \in 1 .. record.data[2 * k] |->
                        decodeValue(record.palette, record.data[2 * k - 1])])

decode(record) == decodeFrom(record, 1, <<>>)

---------------------------------------------------------------------------
(* components/CanvasPreview: applyTool and the grid effect *)

ToolType == {"pencil", "eraser", "magic-eraser", "none"}

\* only the clicked cell is cleared
magicErase_targetOnly(grid, index) ==
    LET targetColor == Read(grid, index)
        newGrid == Spread(grid)
    IN  IF targetColor # Transparent
        THEN [hasChanged |-> TRUE,
              newGrid |-> [i \in 1 .. Len(newGrid) |->
                             IF i = index + 1 THEN Transparent ELSE newGrid[i]]]
        ELSE [hasChanged |-> FALSE, newGrid |-> newGrid]

\* the magic-eraser branch: every element equal to the target becomes transparent
magicErase(grid, index) ==
    LET targetColor == Read(grid, index)
        newGrid == Spread(grid)
    IN  IF targetColor # Transparent
        THEN [hasChanged |-> TRUE,
              newGrid |-> [i \in 1 .. Len(newGrid) |->
                             IF newGrid[i] = targetColor THEN Transparent ELSE newGrid[i]]]
        ELSE [hasChanged |-> FALSE, newGrid |-> newGrid]

\* the loops run one cell further and the guard lets px = size, py = size through
brushCells_offByOne(size, brush, x, y) ==
    LET halfBrush == brush \div 2
        startX == x - halfBrush
        startY == y - halfBrush
        endX == startX + brush
        endY == startY + brush
    IN  { py * size + px : px \in { q \in startX .. endX : q >= 0 /\ q <= size },
                           py \in { q \in startY .. endY : q >= 0 /\ q <= size } }

\* the cells the two nested loops visit and the guard lets through, as 0-based indices
brushCells(size, brush, x, y) ==
    LET halfBrush == brush \div 2
        startX == x - halfBrush
        startY == y - halfBrush
        endX == startX + brush
        endY == startY + brush
    IN  { py * size + px : px \in { q \in startX .. endX - 1 : q >= 0 /\ q < size },
                           py \in { q \in startY .. endY - 1 : q >= 0 /\ q < size } }

\* the pencil/eraser branch: a cell is written only if it differs; a write past
\* the end grows the array and leaves holes before it
brushPaint(grid, size, tool, brush, color, x, y) ==
    LET newColor == IF tool = "pencil" THEN color ELSE Transparent
        cells == brushCells(size, brush, x, y)
        copy == Spread(grid)
        written == { idx \in cells : Read(copy, idx) # newColor }
        newLen == IF written = {} THEN Len(copy)
                  ELSE Max(Len(copy), 1 + CHOOSE m \in written : \A o \in written : o <= m)
    IN  [hasChanged |-> written # {},
         newGrid |-> [i \in 1 .. newLen |->
                        IF (i - 1) \in written THEN newColor
                        ELSE IF i <= Len(copy) THEN copy[i] ELSE Hole]]

\* only the missing grid returns early
applyTool_noBoundsGuard(grid, size, tool, brush, color, x, y) ==
    IF grid = Null
    THEN [hasChanged |-> FALSE, newGrid |-> grid]
    ELSE IF tool = "magic-eraser"
         THEN magicErase(grid, y * size + x)
         ELSE brushPaint(grid, size, tool, brush, color, x, y)

\* applyTool(x, y) on the grid, size and tool state of the render
applyTool(grid, size, tool, brush, color, x, y) ==
    IF grid = Null \/ x < 0 \/ x >= size \/ y < 0 \/ y >= size
    THEN [hasChanged |-> FALSE, newGrid |-> grid]
    ELSE IF tool = "magic-eraser"
         THEN magicErase(grid, y * size + x)
         ELSE brushPaint(grid, size, tool, brush, color, x, y)

\* grid.find(c => c !== 'transparent'): find visits holes as undefined
RECURSIVE findFrom(_, _)
findFrom(grid, i) ==
    IF i >= Len(grid) THEN Undefined
    ELSE IF Read(grid, i) # Transparent THEN Read(grid, i) ELSE findFrom(grid, i + 1)

firstColorOf(grid) == findFrom(grid, 0)

\* the effect sets the tool and leaves the colour
gridEffect_toolOnly(grid, tool, color) ==
    IF grid # Null THEN [tool |-> "pencil", color |-> color] ELSE [tool |-> tool, color |-> color]

\* useEffect(..., [grid]): the tool and the colour after the effect has run
gridEffect(grid, tool, color) ==
    IF grid # Null
    THEN [tool  |-> "pencil",
          color |-> IF firstColorOf(grid) # Undefined THEN firstColorOf(grid) ELSE color]
    ELSE [tool |-> tool, color |-> color]

---------------------------------------------------------------------------
(* The application *)

\* what the prompt textarea may hold
Prompts == {"", " ", "a cat"}

\* prompt.trim()
trim(prompt) == IF prompt = " " THEN "" ELSE prompt

\* useState initial values of App and of a freshly mounted CanvasPreview
Init ==
    /\ hasApiKey = FALSE
    /\ selectedSize = S
    /\ gridData = Null
    /\ isGenerating = FALSE
    /\ error = "none"
    /\ genPc = "idle"
    /\ reqSize = S
    /\ activeTool = "none"
    /\ brushSize = 1
    /\ drawColor = "#ffffff"
    /\ isDragging = FALSE
    /\ showCode = FALSE
    /\ nEdits = 0
    /\ nGens = 0
    /\ imageData = <<>>
    /\ pendingGrid = NoUpdate

\* checkApiKey on mount, or the landing page's button: the main view mounts
handleConnectApiKey ==
    /\ ~hasApiKey
    /\ hasApiKey' = TRUE
    /\ UNCHANGED <<imageData, pendingGrid, selectedSize, gridData, isGenerating, error, genPc, reqSize,
                   activeTool, brushSize, drawColor, isDragging, showCode, nEdits, nGens>>

\* a size button of the Sidebar
handleSizeChange(size) ==
    /\ hasApiKey
    /\ selectedSize' = size
    /\ UNCHANGED <<imageData, pendingGrid, hasApiKey, gridData, isGenerating, error, genPc, reqSize,
                   activeTool, brushSize, drawColor, isDragging, showCode, nEdits, nGens>>

\* handleGenerate up to its first await; the grid effect does nothing for a null grid
handleGenerate(prompt, size) ==
    /\ nGens < MaxGenerations
    /\ isGenerating' = TRUE
    /\ error' = "none"
    /\ gridData' = Null
    /\ genPc' = "image"
    /\ reqSize' = size
    /\ nGens' = nGens + 1
    /\ activeTool' = gridEffect(Null, activeTool, drawColor).tool
    /\ drawColor' = gridEffect(Null, activeTool, drawColor).color
    /\ UNCHANGED <<imageData, pendingGrid, hasApiKey, selectedSize, brushSize, isDragging, showCode, nEdits>>

\* the submit button is disabled only while the prompt is blank
handleSubmit_whileGenerating(prompt) ==
    /\ hasApiKey
    /\ IF trim(prompt) # "" THEN handleGenerate(prompt, selectedSize) ELSE UNCHANGED vars

\* the submit button, disabled while generating or while the prompt is blank
handleSubmit(prompt) ==
    /\ hasApiKey
    /\ ~isGenerating
    /\ IF trim(prompt) # "" THEN handleGenerate(prompt, selectedSize) ELSE UNCHANGED vars

\* generatePixelArtImage resolves with the image
imageGenerated ==
    /\ genPc = "image"
    /\ genPc' = "grid"
    /\ UNCHANGED <<imageData, pendingGrid, hasApiKey, selectedSize, gridData, isGenerating, error, reqSize,
                   activeTool, brushSize, drawColor, isDragging, showCode, nEdits, nGens>>

\* generatePixelArtImage throws: catch and finally. An authorization message
\* brings the landing page back, which unmounts CanvasPreview; its state is
\* the initial one when it mounts again
imageFailed(kind) ==
    /\ genPc = "image"
    /\ genPc' = "idle"
    /\ isGenerating' = FALSE
    /\ error' = kind
    /\ IF kind = "auth"
       THEN /\ hasApiKey' = FALSE
            /\ activeTool' = "none"
            /\ brushSize' = 1
            /\ drawColor' = "#ffffff"
            /\ isDragging' = FALSE
            /\ showCode' = FALSE
       ELSE UNCHANGED <<hasApiKey, activeTool, brushSize, drawColor, isDragging, showCode>>
    /\ UNCHANGED <<imageData, pendingGrid, selectedSize, gridData, reqSize, nEdits, nGens>>

\* processImageToGrid resolves: setGridData(grid), finally, and the grid effect
gridResolved(hexGrid) ==
    /\ genPc = "grid"
    /\ genPc' = "idle"
    /\ gridData' = hexGrid
    /\ isGenerating' = FALSE
    /\ activeTool' = gridEffect(gridData', activeTool, drawColor).tool
    /\ drawColor' = gridEffect(gridData', activeTool, drawColor).color
    /\ UNCHANGED <<imageData, pendingGrid, hasApiKey, selectedSize, error, reqSize, brushSize, isDragging,
                   showCode, nEdits, nGens>>

\* the catch without the finally
gridRejected_noFinally ==
    /\ genPc = "grid"
    /\ genPc' = "idle"
    /\ error' = "other"
    /\ UNCHANGED <<imageData, pendingGrid, hasApiKey, selectedSize, gridData, isGenerating, reqSize,
                   activeTool, brushSize, drawColor, isDragging, showCode, nEdits, nGens>>

\* processImageToGrid rejects (img.onerror, or no 2d context): catch and finally
gridRejected ==
    /\ genPc = "grid"
    /\ genPc' = "idle"
    /\ isGenerating' = FALSE
    /\ error' = "other"
    /\ UNCHANGED <<imageData, pendingGrid, hasApiKey, selectedSize, gridData, reqSize, activeTool, brushSize,
                   drawColor, isDragging, showCode, nEdits, nGens>>

\* the close button of the error toast
dismissError ==
    /\ hasApiKey
    /\ error # "none"
    /\ error' = "none"
    /\ UNCHANGED <<imageData, pendingGrid, hasApiKey, selectedSize, gridData, isGenerating, genPc, reqSize,
                   activeTool, brushSize, drawColor, isDragging, showCode, nEdits, nGens>>

\* the toolbar's tool settings are rendered while a grid is held
toolsShown == hasApiKey /\ gridData # Null

\* the session's grid updates are not used up
withinEdits == nEdits < MaxEdits

\* the three tool buttons
setActiveTool(tool) ==
    /\ toolsShown
    /\ withinEdits
    /\ activeTool' = tool
    /\ UNCHANGED <<imageData, pendingGrid, hasApiKey, selectedSize, gridData, isGenerating, error, genPc, reqSize,
                   brushSize, drawColor, isDragging, showCode, nEdits, nGens>>

\* the brush slider, rendered unless the tool is the magic eraser
setBrushSize(b) ==
    /\ toolsShown
    /\ withinEdits
    /\ activeTool # "magic-eraser"
    /\ brushSize' = b
    /\ UNCHANGED <<imageData, pendingGrid, hasApiKey, selectedSize, gridData, isGenerating, error, genPc, reqSize,
                   activeTool, drawColor, isDragging, showCode, nEdits, nGens>>

\* the colour input, rendered while the tool is the pencil
setDrawColor(c) ==
    /\ toolsShown
    /\ withinEdits
    /\ activeTool = "pencil"
    /\ drawColor' = c
    /\ UNCHANGED <<imageData, pendingGrid, hasApiKey, selectedSize, gridData, isGenerating, error, genPc, reqSize,
                   activeTool, brushSize, isDragging, showCode, nEdits, nGens>>

\* the JSON button (disabled without a grid) and the panel's close button
setShowCode ==
    /\ hasApiKey
    /\ gridData # Null
    /\ showCode' = ~showCode
    /\ UNCHANGED <<imageData, pendingGrid, hasApiKey, selectedSize, gridData, isGenerating, error, genPc, reqSize,
                   activeTool, brushSize, drawColor, isDragging, nEdits, nGens>>

\* the canvas is displayed, so it receives mouse events
canvasShown == hasApiKey /\ gridData # Null /\ ~isGenerating

\* the end of applyTool: onGridUpdate(newGrid) if hasChanged, and then the
\* grid effect of the render with the new grid
onGridUpdate(res) ==
    IF res.hasChanged
    THEN /\ nEdits' = nEdits + 1
         /\ gridData' = res.newGrid
         /\ activeTool' = gridEffect(res.newGrid, activeTool, drawColor).tool
         /\ drawColor' = gridEffect(res.newGrid, activeTool, drawColor).color
    ELSE UNCHANGED <<gridData, activeTool, drawColor, nEdits>>

handleMouseDown(x, y) ==
    /\ canvasShown
    /\ withinEdits
    /\ isDragging' = TRUE
    /\ onGridUpdate(applyTool(gridData, selectedSize, activeTool, brushSize, drawColor, x, y))
    /\ UNCHANGED <<imageData, pendingGrid, hasApiKey, selectedSize, isGenerating, error, genPc, reqSize,
                   brushSize, showCode, nGens>>

\* the move applies the tool whether or not a press armed it
handleMouseMove_unarmed(x, y) ==
    /\ canvasShown
    /\ withinEdits
    /\ onGridUpdate(applyTool(gridData, selectedSize, activeTool, brushSize, drawColor, x, y))
    /\ UNCHANGED <<imageData, pendingGrid, hasApiKey, selectedSize, isGenerating, error, genPc, reqSize,
                   brushSize, isDragging, showCode, nGens>>

handleMouseMove(x, y) ==
    /\ canvasShown
    /\ withinEdits
    /\ IF ~isDragging \/ activeTool = "magic-eraser"
       THEN UNCHANGED <<gridData, activeTool, drawColor, nEdits>>
       ELSE onGridUpdate(applyTool(gridData, selectedSize, activeTool, brushSize,
                                   drawColor, x, y))
    /\ UNCHANGED <<imageData, pendingGrid, hasApiKey, selectedSize, isGenerating, error, genPc, reqSize,
                   brushSize, isDragging, showCode, nGens>>

\* onMouseUp of the canvas and of the container, onMouseLeave of the container
handleMouseUp ==
    /\ hasApiKey
    /\ isDragging' = FALSE
    /\ UNCHANGED <<imageData, pendingGrid, hasApiKey, selectedSize, gridData, isGenerating, error, genPc, reqSize,
                   activeTool, brushSize, drawColor, showCode, nEdits, nGens>>

Next ==
    \/ handleConnectApiKey
    \/ \E size \in PixelSize : handleSizeChange(size)
    \/ \E prompt \in Prompts : handleSubmit(prompt)
    \/ imageGenerated
    \/ \E kind \in {"auth", "other"} : imageFailed(kind)
    \/ \E hexGrid \in hexGrids[reqSize] : gridResolved(hexGrid)
    \/ gridRejected
    \/ dismissError
    \/ \E tool \in ToolType \ {"none"} : setActiveTool(tool)
    \/ \E b \in BrushSizes : setBrushSize(b)
    \/ \E c \in PickerColors : setDrawColor(c)
    \/ setShowCode
    \/ \E x \in Coords, y \in Coords : handleMouseDown(x, y)
    \/ \E x \in Coords, y \in Coords : handleMouseMove(x, y)
    \/ handleMouseUp

Spec == Init /\ [][Next]_vars

---------------------------------------------------------------------------
(* Properties *)

\* every cell is a colour string or 'transparent'
ValidCells(g) == \A i \in 1 .. Len(g) : g[i] = Transparent \/ IsColor(g[i])

\* a grid of the given resolution
PixelGrid(g, size) == g # Null /\ Len(g) = size * size /\ ValidCells(g)

ColorsOf(g) == { g[i] : i \in { j \in 1 .. Len(g) : IsColor(g[j]) } }

\* the JSON panel is rendered: generateCodeSnippet(grid, size) has run
codeShown == hasApiKey /\ showCode /\ gridData # Null

\* C1: round-trip law. Whenever the JSON panel shows the record of a grid of
\* the selected resolution, decoding that record gives back the grid.
C1_RoundTrip ==
    (codeShown /\ PixelGrid(gridData, selectedSize))
        => decode(generateCodeSnippet(gridData, selectedSize)) = gridData

\* a record of a grid with two colours, a repeated colour and a transparent cell
C1_Witness ==
    /\ codeShown
    /\ PixelGrid(gridData, selectedSize)
    /\ Cardinality(ColorsOf(gridData)) >= 2
    /\ \E i \in 1 .. Len(gridData) : gridData[i] = Transparent
    /\ \E i \in 2 .. Len(gridData) : gridData[i] = gridData[i - 1]
    /\ Len(generateCodeSnippet(gridData, selectedSize).data) >= 6

\* C2: whenever a grid is held, its length is the square of the selected size.
C2_GridLength ==
    gridData # Null => Len(gridData) = selectedSize * selectedSize

\* C3: a step that replaces the held grid by an edited grid leaves activeTool,
\* brushSize and drawColor as they were.
C3_ToolStatePersists ==
    [][ (gridData # Null /\ gridData' # Null /\ nEdits' = nEdits + 1)
            => (activeTool' = activeTool /\ brushSize' = brushSize /\ drawColor' = drawColor) ]_vars

\* line 129 of applyTool lets (x, y) through
inBounds(x, y) == x >= 0 /\ x < selectedSize /\ y >= 0 /\ y < selectedSize

\* what applyTool computes at (x, y) in this render
applied(x, y) == applyTool(gridData, selectedSize, activeTool, brushSize, drawColor, x, y)

\* C4: magic eraser totality. While the magic eraser is the tool, applyTool at
\* an in-bounds cell of colour C issues a grid in which every cell that held C
\* is transparent, every other cell is as it was, and the length is the same.
C4_MagicEraserTotality ==
    (canvasShown /\ activeTool = "magic-eraser")
        => \A x \in Coords, y \in Coords :
             LET C == Read(gridData, y * selectedSize + x)
                 res == applied(x, y)
             IN  (inBounds(x, y) /\ IsColor(C))
                   => /\ res.hasChanged
                      /\ Len(res.newGrid) = Len(gridData)
                      /\ \A i \in 0 .. Len(gridData) - 1 :
                           Read(res.newGrid, i) =
                               IF Read(gridData, i) = C THEN Transparent
                               ELSE Read(gridData, i)

\* a magic-eraser press on a colour held by two cells, with another colour and
\* a transparent cell in the grid, is about to act
C4_Witness ==
    /\ canvasShown
    /\ activeTool = "magic-eraser"
    /\ \E x \in Coords, y \in Coords :
         LET C == Read(gridData, y * selectedSize + x) IN
         /\ inBounds(x, y)
         /\ IsColor(C)
         /\ Cardinality({ i \in 1 .. Len(gridData) : gridData[i] = C }) >= 2
         /\ \E i \in 1 .. Len(gridData) : IsColor(gridData[i]) /\ gridData[i] # C
         /\ \E i \in 1 .. Len(gridData) : gridData[i] = Transparent
         /\ ENABLED (handleMouseDown(x, y) /\ gridData' # gridData)

\* the square of section 4.2 around (x, y), cut to the canvas
inFootprint(px, py, x, y, b) ==
    LET half == b \div 2 IN
    /\ x - half <= px /\ px <= x - half + b - 1
    /\ y - half <= py /\ py <= y - half + b - 1

\* C5: brush footprint. While the pencil or the eraser is the tool, the grid
\* applyTool computes at an in-bounds anchor holds the tool's value in exactly
\* the cells of the square that lie on the canvas, every other cell reads as
\* before, and an update is issued when a cell of the square differed.
C5_BrushFootprint ==
    (canvasShown /\ activeTool \in {"pencil", "eraser"})
        => \A x \in Coords, y \in Coords :
             inBounds(x, y)
               => LET v == IF activeTool = "pencil" THEN drawColor ELSE Transparent
                      n == selectedSize
                      res == applied(x, y)
                  IN  /\ \A px \in 0 .. n - 1, py \in 0 .. n - 1 :
                           Read(res.newGrid, py * n + px) =
                               IF inFootprint(px, py, x, y, brushSize) THEN v
                               ELSE Read(gridData, py * n + px)
                      /\ \A i \in n * n .. Max(Len(gridData), Len(res.newGrid)) :
                           Read(res.newGrid, i) = Read(gridData, i)
                      /\ (\E i \in 0 .. Len(res.newGrid) : Read(res.newGrid, i) # Read(gridData, i))
                           => res.hasChanged

\* a brush wider than one cell, cut by an edge of the canvas, is about to
\* change the grid
C5_Witness ==
    /\ canvasShown
    /\ activeTool \in {"pencil", "eraser"}
    /\ brushSize >= 2
    /\ \E x \in Coords, y \in Coords :
         /\ inBounds(x, y)
         /\ \E px \in {0 - 1, selectedSize}, py \in Coords : inFootprint(px, py, x, y, brushSize)
         /\ \E px \in 0 .. selectedSize - 1, py \in 0 .. selectedSize - 1 :
              ~inFootprint(px, py, x, y, brushSize)
         /\ ENABLED (handleMouseDown(x, y) /\ gridData' # gridData)

\* C6: with the tool None, applyTool issues no grid update, whatever the
\* coordinate and the grid.
C6_NoneNoMutation ==
    canvasShown
        => \A x \in Coords, y \in Coords :
             ~applyTool(gridData, selectedSize, "none", brushSize, drawColor, x, y).hasChanged

\* C7: applyTool issues a grid update if and only if a cell of the resulting
\* grid differs from the current grid.
C7_UpdateIffChanged ==
    canvasShown
        => \A x \in Coords, y \in Coords :
             LET res == applied(x, y)
             IN  res.hasChanged
                   <=> \E i \in 0 .. Max(Len(gridData), Len(res.newGrid)) :
                         Read(res.newGrid, i) # Read(gridData, i)

\* the value of every cell, as the runs of data give it
RECURSIVE runValues(_, _)
runValues(data, k) ==
    IF 2 * k > Len(data) THEN <<>>
    ELSE [j \in 1 .. data[2 * k] |-> data[2 * k - 1]] \o runValues(data, k + 1)

\* the index of the first cell holding c
firstAt(g, c) == CHOOSE i \in 1 .. Len(g) : g[i] = c /\ \A j \in 1 .. i - 1 : g[j] # c

\* C8: the palette of the record lists the distinct non-transparent colours of
\* the grid in order of first occurrence, and the value of every cell is -1
\* for a transparent cell and the palette index of the cell's colour otherwise.
C8_PaletteAndIndices ==
    codeShown
        => LET rec == generateCodeSnippet(gridData, selectedSize)
               pal == rec.palette
               vals == runValues(rec.data, 1)
           IN  /\ Range(pal) = ColorsOf(gridData)
               /\ \A i \in 1 .. Len(pal), j \in 1 .. Len(pal) :
                    i < j => (pal[i] # pal[j] /\ firstAt(gridData, pal[i]) < firstAt(gridData, pal[j]))
               /\ \A k \in 1 .. Len(rec.data) \div 2 :
                    rec.data[2 * k - 1] \in ((0 - 1) .. Len(pal) - 1)
               /\ Len(vals) = Len(gridData)
               /\ \A i \in 1 .. Len(gridData) :
                    IF gridData[i] = Transparent THEN vals[i] = 0 - 1
                    ELSE vals[i] \in 0 .. Len(pal) - 1 /\ pal[vals[i] + 1] = gridData[i]

\* the sum of the counts of the runs from the k-th on
RECURSIVE sumCounts(_, _)
sumCounts(data, k) == IF 2 * k > Len(data) THEN 0 ELSE data[2 * k] + sumCounts(data, k + 1)

\* C9: data is the sequence of maximal runs: even length, every count at
\* least 1, no two consecutive runs with the same value, and the counts sum to
\* width x height of the record.
C9_MaximalRuns ==
    codeShown
        => LET rec == generateCodeSnippet(gridData, selectedSize)
               runs == Len(rec.data) \div 2
           IN  /\ Len(rec.data) % 2 = 0
               /\ \A k \in 1 .. runs : rec.data[2 * k] >= 1
               /\ \A k \in 1 .. runs - 1 : rec.data[2 * k - 1] # rec.data[2 * k + 1]
               /\ sumCounts(rec.data, 1) = rec.width * rec.height

\* a generated grid has just arrived in this step
gridArrives == genPc = "grid" /\ genPc' = "idle" /\ gridData' # Null

\* the first colour of a grid of colours and transparent cells
firstColor(g) == g[CHOOSE i \in 1 .. Len(g) : IsColor(g[i]) /\ \A j \in 1 .. i - 1 : ~IsColor(g[j])]

\* C10, as claimed: when a generated grid arrives the tool is the pencil, the
\* colour is the grid's first colour and the brush size is 1.
C10_DefaultsOnNewGrid ==
    [][ gridArrives
          => /\ activeTool' = "pencil"
             /\ brushSize' = 1
             /\ (ColorsOf(gridData') # {} => drawColor' = firstColor(gridData')) ]_vars

\* C10, amended: when a generated grid arrives the tool is the pencil, the
\* colour is the grid's first colour if it has one and is unchanged if it has
\* none, and the brush size is unchanged.
C10_ToolAndColorOnNewGrid ==
    [][ gridArrives
          => /\ activeTool' = "pencil"
             /\ brushSize' = brushSize
             /\ drawColor' = IF ColorsOf(gridData') # {} THEN firstColor(gridData')
                             ELSE drawColor ]_vars

\* a grid with a colour other than the current one is about to arrive while
\* the tool is not the pencil and the brush is wider than 1
C10_Witness ==
    /\ genPc = "grid"
    /\ activeTool = "eraser"
    /\ brushSize > 1
    /\ ENABLED (\E hexGrid \in hexGrids[reqSize] :
                  /\ gridResolved(hexGrid)
                  /\ drawColor' # drawColor)

---------------------------------------------------------------------------
(* processImageToGrid on its own: img.onload over the bitmaps of getImageData *)

\* RGBA pixels on both sides of the distance threshold and of the alpha cutoff
\* (against a black reference: 58^2 + 14^2 + 6^2 = 3596 and 60^2 = 3600)
QuantizerPixels ==
    Pixels \cup { <<58, 14, 6, 255>>, <<60, 0, 0, 255>>, <<255, 128, 0, 50>> }

\* what getImageData(0, 0, size, size) may return: a pixel in the top-left
\* corner, a fill pixel, and up to MaxSpots pixels that differ
ImageDatas(size) ==
    UNION { UNION { { [i \in 1 .. size * size |->
                        IF i = 1 THEN bf[1] ELSE IF i \in s THEN f[i] ELSE bf[2]]
                      : f \in [s -> QuantizerPixels] }
                    : s \in SpotSets(size * size, MaxSpots) }
            : bf \in QuantizerPixels \X QuantizerPixels }

\* handleGenerate is awaiting processImageToGrid(base64Image, size) and the
\* image has loaded: imageData is what getImageData returns in img.onload
InitQuantizer ==
    /\ hasApiKey = TRUE
    /\ reqSize \in PixelSize
    /\ selectedSize = reqSize
    /\ gridData = Null
    /\ isGenerating = TRUE
    /\ error = "none"
    /\ genPc = "grid"
    /\ activeTool = "none"
    /\ brushSize = 1
    /\ drawColor = "#ffffff"
    /\ isDragging = FALSE
    /\ showCode = FALSE
    /\ nEdits = 0
    /\ nGens = 1
    /\ imageData \in ImageDatas(reqSize)
    /\ pendingGrid = NoUpdate

\* img.onload from getImageData on: the loop, resolve(hexGrid), and then
\* setGridData(grid), finally, and the grid effect in handleGenerate.
\* imageData is kept next to the grid computed from it
onload ==
    /\ genPc = "grid"
    /\ imageData # <<>>
    /\ gridResolved(processImageToGrid(imageData, reqSize))

NextQuantizer == onload

SpecQuantizer == InitQuantizer /\ [][NextQuantizer]_vars

\* the squared distance of two pixels in RGB
dist2(p, q) ==
    (p[1] - q[1]) * (p[1] - q[1]) + (p[2] - q[2]) * (p[2] - q[2])
    + (p[3] - q[3]) * (p[3] - q[3])

\* the grid of the quantizer has arrived
quantized == genPc = "idle" /\ gridData # Null /\ imageData # <<>>

\* C11: the grid has resolution^2 cells; cell i is Transparent iff the alpha of
\* pixel i is below 50 or its squared RGB distance to pixel 0 is below 3600,
\* and otherwise it is the "#rrggbb" of the pixel's own R, G, B (pixels that
\* differ in R, G or B give different colours); every cell is thereby fixed
\* by the bitmap alone.
C11_Classification ==
    quantized =>
        /\ Len(gridData) = reqSize * reqSize
        /\ Len(imageData) = reqSize * reqSize
        /\ \A i \in 1 .. Len(gridData) :
              LET p == imageData[i]
              IN  /\ gridData[i] = Transparent <=> (p[4] < 50 \/ dist2(p, imageData[1]) < 3600)
                  /\ gridData[i] # Transparent =>
                        /\ gridData[i] = "#" \o Hex2(p[1]) \o Hex2(p[2]) \o Hex2(p[3])
                        /\ \A j \in 1 .. Len(gridData) :
                              gridData[j] = gridData[i] =>
                                  <<imageData[j][1], imageData[j][2], imageData[j][3]>>
                                      = <<p[1], p[2], p[3]>>

\* a grid with a cell made transparent by its distance alone, a cell made
\* transparent by its alpha alone, and cells right at the threshold and at the
\* cutoff that stay opaque
C11_Witness ==
    /\ quantized
    /\ \E i \in 2 .. Len(gridData) :
          /\ imageData[i][4] >= 50
          /\ dist2(imageData[i], imageData[1]) \in 1 .. 3599
          /\ gridData[i] = Transparent
    /\ \E i \in 2 .. Len(gridData) :
          \/ /\ imageData[i][4] < 50
             /\ dist2(imageData[i], imageData[1]) >= 3600
             /\ gridData[i] = Transparent
          \/ /\ imageData[i][4] = 50
             /\ dist2(imageData[i], imageData[1]) >= 3600
             /\ gridData[i] # Transparent
          \/ /\ dist2(imageData[i], imageData[1]) = 3600
             /\ gridData[i] = "#3c0000"

---------------------------------------------------------------------------
(* Properties of the editor, continued *)

\* C12: applyTool at a coordinate outside [0, size)^2 changes no cell and
\* issues no grid update, for every tool and every brush size, also where the
\* brush square around the coordinate reaches into the canvas.
C12_OutOfBoundsNoOp ==
    canvasShown =>
        \A x \in Coords, y \in Coords :
            ~inBounds(x, y) =>
                /\ \A tool \in ToolType, b \in BrushSizes :
                      LET res == applyTool(gridData, selectedSize, tool, b, drawColor, x, y)
                      IN  ~res.hasChanged /\ res.newGrid = gridData
                /\ ~applied(x, y).hasChanged

\* the pencil with a brush of 3 pressed one cell left of or above the canvas:
\* the square around the point holds cells of the canvas that are not of the
\* pencil's colour, and the press is taken
C12_Witness ==
    /\ canvasShown
    /\ activeTool = "pencil"
    /\ brushSize = 3
    /\ \E x \in Coords, y \in Coords :
          /\ ~inBounds(x, y)
          /\ \E idx \in brushCells(selectedSize, brushSize, x, y) :
                idx < Len(gridData) /\ Read(gridData, idx) # drawColor
          /\ ENABLED (handleMouseDown(x, y) /\ gridData' = gridData)

---------------------------------------------------------------------------
(* Generation: how a request ends *)

\* the promise of generatePixelArtImage settles
imageSettles == imageGenerated \/ \E kind \in {"auth", "other"} : imageFailed(kind)

\* the promise of processImageToGrid settles: img.onload or img.onerror fires
gridSettles == gridRejected \/ \E hexGrid \in hexGrids[reqSize] : gridResolved(hexGrid)

\* the application where every awaited promise settles
SpecLive == Spec /\ WF_vars(imageSettles) /\ WF_vars(gridSettles)

\* a generation is in flight
inFlight == genPc # "idle"

\* the step in which handleGenerate returns
generationEnds == inFlight /\ genPc' = "idle"

\* C13: a generation that fails leaves the grid null, sets an error and puts
\* isGenerating back to FALSE; a generation that ends, ends with isGenerating
\* FALSE and with a grid or an error; and every generation in flight ends.
C13_GenerationEnds ==
    /\ [][generationEnds =>
             /\ ~isGenerating'
             /\ \/ gridData' # Null /\ error' = "none"
                \/ gridData' = Null /\ error' # "none"]_vars
    /\ (inFlight ~> (~inFlight /\ ~isGenerating /\ (gridData # Null \/ error # "none")))

\* a failed generation after which the form takes the next request
C13_Witness ==
    /\ ~inFlight
    /\ nGens = 1
    /\ gridData = Null
    /\ error = "other"
    /\ ~isGenerating
    /\ ENABLED (handleSubmit("a cat") /\ isGenerating')

---------------------------------------------------------------------------
(* The drag *)

\* the grid after the active tool has been applied at (x, y)
edited(x, y) == IF applied(x, y).hasChanged THEN applied(x, y).newGrid ELSE gridData

\* some pointer-down, some pointer-move
mouseDown == \E x \in Coords, y \in Coords : handleMouseDown(x, y)
mouseMove == \E x \in Coords, y \in Coords : handleMouseMove(x, y)

\* C14: a pointer-down arms the drag, and the step that arms it applies the
\* active tool at one cell; a pointer-move leaves the drag as it is and edits
\* only if the drag is armed and the tool is not the magic eraser;
\* pointer-up (or leaving the container) disarms.
C14_DragStateMachine ==
    /\ [][~isDragging' => ~mouseDown]_vars
    /\ [][(~isDragging /\ isDragging') =>
             \E x \in Coords, y \in Coords : gridData' = edited(x, y)]_vars
    /\ [][(\/ isDragging' # isDragging
           \/ gridData' # gridData /\ (~isDragging \/ activeTool = "magic-eraser"))
             => ~mouseMove]_vars
    /\ [][handleMouseUp => ~isDragging']_vars

\* the drag is armed by a press that changed nothing, and a move to another
\* cell draws there
C14_Witness ==
    /\ canvasShown
    /\ isDragging
    /\ nEdits = 0
    /\ activeTool = "pencil"
    /\ \E x \in Coords, y \in Coords :
          ENABLED (handleMouseMove(x, y) /\ gridData' # gridData)

---------------------------------------------------------------------------
(* Pointer-moves whose state update is rendered later *)

\* handleMouseMove where React renders the update in a later task (a
\* mousemove is a continuous event): the handler runs with the grid, tool
\* and colour of the last render, and its setGridData(newGrid) replaces
\* whatever update is waiting
handleMouseMoveDeferred(x, y) ==
    LET res == applyTool(gridData, selectedSize, activeTool, brushSize, drawColor, x, y)
    IN  /\ canvasShown
        /\ withinEdits
        /\ isDragging /\ activeTool # "magic-eraser"
        /\ res.hasChanged
        /\ pendingGrid' = res.newGrid
        /\ UNCHANGED <<hasApiKey, selectedSize, gridData, isGenerating, error, genPc,
                       reqSize, activeTool, brushSize, drawColor, isDragging, showCode,
                       nEdits, nGens, imageData>>

\* the render of the waiting update: App holds the new grid, CanvasPreview
\* gets it as its prop and the grid effect runs
renderGridUpdate ==
    /\ pendingGrid # NoUpdate
    /\ onGridUpdate([hasChanged |-> TRUE, newGrid |-> pendingGrid])
    /\ pendingGrid' = NoUpdate
    /\ UNCHANGED <<hasApiKey, selectedSize, isGenerating, error, genPc, reqSize,
                   brushSize, isDragging, showCode, nGens, imageData>>

\* every other event is taken with no update waiting
NextEvents ==
    \/ pendingGrid = NoUpdate /\ Next
    \/ \E x \in Coords, y \in Coords : handleMouseMoveDeferred(x, y)
    \/ renderGridUpdate

SpecEvents == Init /\ [][NextEvents]_vars

\* C16: edits are applied in the order of the pointer events, each to the
\* grid the edit before it left: an edit made while an earlier edit is still
\* waiting for its render is the tool applied to the grid of that earlier
\* edit, never to an older grid.
C16_EditsInOrder ==
    [][(pendingGrid # NoUpdate /\ pendingGrid' # NoUpdate /\ pendingGrid' # pendingGrid) =>
         \E x \in Coords, y \in Coords :
             pendingGrid' = applyTool(pendingGrid, selectedSize, activeTool, brushSize,
                                      drawColor, x, y).newGrid]_vars

---------------------------------------------------------------------------
(* Generation requests in flight *)

\* the form takes a request: a submit that calls handleGenerate
requestIssued == \E prompt \in Prompts : handleSubmit(prompt) /\ nGens' = nGens + 1

---------------------------------------------------------------------------
(* The background reference *)

\* C17: the top-left cell of a grid of the quantizer is Transparent, whatever
\* the image: pixel 0 is the background reference and its distance to itself
\* is 0.
C17_TopLeftTransparent ==
    quantized => gridData[1] = Transparent

\* an image whose top-left pixel is an opaque orange, far from black, with a
\* pixel elsewhere that stays opaque
C17_Witness ==
    /\ quantized
    /\ imageData[1] = <<255, 128, 0, 255>>
    /\ \E i \in 2 .. Len(gridData) : IsColor(gridData[i])

====
